---- MODULE Spec2Model ----
(***************************************************************************)
(* Trello synchronisation subsystem of designworks-shadcn.                 *)
(*                                                                         *)
(* State: the rows of design_requests and sync_logs, the cards held by the *)
(* provider (the design request each was created for), the wall clock, the *)
(* number of writes the store has rejected, the progress of a              *)
(* processFailedSyncs run, and what the step that led to the state         *)
(* returned to its caller (lastCall, submission, sweep.results): a step    *)
(* that runs no handler leaves NoCall / NoSubmission there.                *)
(*                                                                         *)
(* Time is counted in minutes.  A sync_logs row is identified by its       *)
(* position in the ledger, which is also its created_at order.  An         *)
(* optional value (a nullable column) is <<>> for null and <<v>> for v.    *)
(* The client's trello_config is an input of every handler run: the value  *)
(* its select returns, which updateClient can rewrite between two runs.    *)
(***************************************************************************)
EXTENDS Integers, Sequences, FiniteSets, TLC

\* ------------------------------------------------------------------ bounds
MaxRequests == 1
MaxLog == 2
MaxClock == 15
MaxStoreFaults == 1
\* of the sweeper's specification
MaxSweepLog == 12
MaxSweepClock == 155

\* ------------------------------------------------------- program constants
BaseDelay == 5
MaxRetryCount == 5
BatchLimit == 10

\* ----------------------------------------------------------------- values
NULL == "null"
None == <<>>
Some(v) == <<v>>

VARIABLES requests, ledger, cards, now, faults, sweep, lastCall, submission,
          racers, probe, trelloMCP

vars == <<requests, ledger, cards, now, faults, sweep, lastCall, submission,
          racers, probe, trelloMCP>>

\* ------------------------------------------------------------ trello_config
\* A falsy JavaScript value: null/undefined or the empty string.
Falsy(x) == x = NULL \/ x = ""

Cfg(k, t, b, l, d) ==
  Some([api_key |-> k, token |-> t, board_id |-> b, list_id |-> l, default_list_id |-> d])

\* The trello_config values a client record takes here: null, a complete
\* one with and without a list id, and one with each required field empty
\* or missing.
ConfigSet ==
  { None,
    Cfg("K", "T", "B", "L0", NULL),
    Cfg("K", "T", "B", NULL, NULL),
    Cfg("", "T", "B", "L0", NULL),
    Cfg("K", NULL, "B", "L0", NULL),
    Cfg("K", "T", NULL, "L0", NULL) }

\* The configuration test of createTrelloCard had it left board_id out, as
\* the tests of updateTrelloCard and addTrelloComment do.
CreateConfigMissing_noBoard(cfg) ==
  \/ cfg = None
  \/ Falsy(cfg[1].api_key) \/ Falsy(cfg[1].token)

\* !trelloConfig || !api_key || !token || !board_id
CreateConfigMissing(cfg) ==
  \/ cfg = None
  \/ Falsy(cfg[1].api_key) \/ Falsy(cfg[1].token) \/ Falsy(cfg[1].board_id)

\* !trelloConfig || !api_key || !token
UpdateConfigMissing(cfg) ==
  \/ cfg = None
  \/ Falsy(cfg[1].api_key) \/ Falsy(cfg[1].token)

\* ------------------------------------------------------------- environment
\* What the collaborators answer during one handler run: the board's list
\* lookup, the provider call (through the MCP server, through the direct REST
\* API after MCP failed, or not at all) and the relational store's verdict on
\* each write the handler issues, in the order of the code.
EnvFields ==
  [ lists      : {"ok", "empty", "fail"},
    provider   : {"mcp", "direct_api", "fail"},
    insertLog  : BOOLEAN,
    drWrite    : BOOLEAN,
    logWrite   : BOOLEAN,
    logWriteErr: BOOLEAN,
    drWriteErr : BOOLEAN,
    audit      : {"ok", "no_actor", "rejected"} ]

Count(b) == IF b THEN 0 ELSE 1

\* The number of writes the store is set to reject.
Rejections(env) ==
  Count(env.insertLog) + Count(env.drWrite) + Count(env.logWrite)
    + Count(env.logWriteErr) + Count(env.drWriteErr)

\* ------------------------------------------------------------------- rows
NewRequest ==
  [ sync_status     |-> "pending",
    sync_error      |-> NULL,
    sync_attempts   |-> 0,
    trello_card_id  |-> None,
    trello_card_url |-> None ]

NewSyncLog(r, op, card) ==
  [ design_request_id |-> r,
    operation         |-> op,
    status            |-> "in_progress",
    trello_card_id    |-> card,
    trello_response   |-> None,
    synced_by         |-> "pending",
    error_message     |-> NULL,
    retry_count       |-> 0,
    next_retry_at     |-> None,
    completed_at      |-> None ]

\* The record of one handler run: what it was, how it ended and what it
\* did, in order ("lists", "provider": calls to the provider; "insert":
\* createSyncLog); log_id is the sync_logs row it created, 0 for none;
\* rejected counts the writes the store refused.
NoCall ==
  [ fn |-> "none", request |-> 0, config |-> None, result |-> "none", error |-> NULL,
    events |-> <<>>, log_id |-> 0, rejected |-> 0, audit |-> "none" ]

StartCall(fn, r, cfg) ==
  [ fn |-> fn, request |-> r, config |-> cfg, result |-> "threw", error |-> NULL,
    events |-> <<>>, log_id |-> 0, rejected |-> 0, audit |-> "none" ]

NoSubmission == [request |-> 0, redirected |-> FALSE, error |-> NULL, sync |-> "none"]

\* No createTrelloCard run is suspended at an await, and no helper function
\* is being evaluated on its own.
NoRacers == <<>>
NoProbe == [fn |-> "none"]

\* The singleton TrelloMCPClient as its constructor leaves it, with no call
\* of it under way.
NewTrelloMCP ==
  [ client |-> NULL, isConnected |-> FALSE, availableTools |-> {},
    connectionAttempts |-> 0, callers |-> <<>> ]

\* ---------------------------------------------------------------- helpers
Pow2(n) == 2 ^ n

\* calculateNextRetry had it capped the delay at one hour.
calculateNextRetry_capped(retryCount) ==
  now + (IF BaseDelay * Pow2(retryCount) > 60 THEN 60 ELSE BaseDelay * Pow2(retryCount))

\* baseDelay * Math.pow(2, retryCount) after Date.now()
calculateNextRetry(retryCount) == now + BaseDelay * Pow2(retryCount)

\* callTrelloWithFallback: MCP first, the direct API when MCP fails; it
\* throws when both fail and returns the method that worked otherwise.
FallbackOk(env) == env.provider # "fail"
FallbackMethod(env) == env.provider

\* trelloConfig.list_id || await getDefaultListId(trelloConfig) asks the
\* provider for the board's lists when neither id is configured.
NeedsListLookup(cfg) == Falsy(cfg[1].list_id) /\ Falsy(cfg[1].default_list_id)

\* updateSyncLog(id, fields) when the store accepts the write.
SetRow(L, id, upd) == [L EXCEPT ![id] = upd @@ @]

\* update(fields).eq('id', r) on design_requests when the store accepts it.
SetRequest(R, r, upd) == [R EXCEPT ![r] = upd @@ @]

\* logActivity had it no try/catch around getCurrentUserClient.
logActivity_noCatch(answer) ==
  IF answer = "no_actor" THEN [threw |-> TRUE, data |-> None]
  ELSE IF answer = "rejected" THEN [threw |-> FALSE, data |-> None]
  ELSE [threw |-> FALSE, data |-> Some("activity")]

\* logActivity: getCurrentUserClient throws ("no_actor") into the catch, which
\* logs and returns undefined; an insert into activity_logs that the store
\* rejects is logged and its null data returned.
logActivity(answer) ==
  IF answer = "no_actor" THEN [threw |-> FALSE, data |-> None]
  ELSE IF answer = "rejected" THEN [threw |-> FALSE, data |-> None]
  ELSE [threw |-> FALSE, data |-> Some("activity")]

\* --------------------------------------------------------------- handlers
\* A handler is an operator from the store contents st = [requests, ledger,
\* cards, call], the trello_config read and the environment's answers to the
\* contents it leaves and the record of the call (st.call).
Cur == [requests |-> requests, ledger |-> ledger, cards |-> cards, call |-> lastCall]

Throw(st, call, kind) == [st EXCEPT !.call = [call EXCEPT !.result = "threw", !.error = kind]]

Rejected(call) == [call EXCEPT !.rejected = @ + 1]

\* The catch (trelloError) block of createTrelloCard: mark the row failed,
\* mark the request failed, re-raise.
createFailed(st, call, r, id, snapshot, kind, env) ==
  IF ~env.logWriteErr
  THEN Throw(st, Rejected(call), "ledger_update")
  ELSE LET L1 == SetRow(st.ledger, id,
                    [ status        |-> "failed",
                      error_message |-> kind,
                      retry_count   |-> 0,
                      next_retry_at |-> Some(calculateNextRetry(0)) ])
           R1 == IF env.drWriteErr
                 THEN SetRequest(st.requests, r,
                        [ sync_status   |-> "failed",
                          sync_error    |-> kind,
                          sync_attempts |-> snapshot.sync_attempts + 1 ])
                 ELSE st.requests
           c1 == IF env.drWriteErr THEN call ELSE Rejected(call)
       IN  Throw([st EXCEPT !.ledger = L1, !.requests = R1], c1, kind)

createTrelloCard(st, cfg, r, env) ==
  LET call0 == StartCall("create", r, cfg)
  IN
  IF r \notin DOMAIN st.requests THEN Throw(st, call0, "not_found")
  ELSE IF CreateConfigMissing(cfg) THEN Throw(st, call0, "config")
  ELSE
  LET snapshot == st.requests[r]
      lookup   == NeedsListLookup(cfg)
      call1    == IF lookup THEN [call0 EXCEPT !.events = <<"lists">>] ELSE call0
  IN
  IF lookup /\ env.lists = "fail" THEN Throw(st, call1, "list_lookup")
  ELSE IF ~env.insertLog THEN Throw(st, Rejected(call1), "ledger_insert")
  ELSE
  LET id    == Len(st.ledger) + 1
      st2   == [st EXCEPT !.ledger = Append(@, NewSyncLog(r, "create", None))]
      call2 == [call1 EXCEPT !.events = @ \o <<"insert", "provider">>, !.log_id = id]
  IN
  IF ~FallbackOk(env) THEN createFailed(st2, call2, r, id, snapshot, "provider", env)
  ELSE
  LET card  == Len(st.cards) + 1
      st3   == [st2 EXCEPT !.cards = Append(@, r)]
      st4   == IF env.drWrite
               THEN [st3 EXCEPT !.requests = SetRequest(@, r,
                       [ trello_card_id  |-> Some(card),
                         trello_card_url |-> Some(card),
                         sync_status     |-> "synced",
                         sync_error      |-> NULL ])]
               ELSE st3
      call4 == IF env.drWrite THEN call2 ELSE Rejected(call2)
  IN
  IF ~env.logWrite
  THEN createFailed(st4, Rejected(call4), r, id, snapshot, "ledger_update", env)
  ELSE
  LET st5   == [st4 EXCEPT !.ledger = SetRow(@, id,
                      [ status          |-> "completed",
                        trello_card_id  |-> Some(card),
                        trello_response |-> Some(card),
                        synced_by       |-> FallbackMethod(env),
                        completed_at    |-> Some(now) ])]
      call5 == [call4 EXCEPT !.audit = env.audit]
  IN
  IF logActivity(env.audit).threw
  THEN createFailed(st5, call5, r, id, snapshot, "audit", env)
  ELSE [st5 EXCEPT !.call = [call5 EXCEPT !.result = "success"]]

\* The catch block of updateTrelloCard had it scheduled the retry for the
\* instant of the failure.
updateFailed_retryNow(st, call, id, kind, env) ==
  IF ~env.logWriteErr
  THEN Throw(st, Rejected(call), "ledger_update")
  ELSE Throw([st EXCEPT !.ledger = SetRow(@, id,
                    [ status        |-> "failed",
                      error_message |-> kind,
                      retry_count   |-> 0,
                      next_retry_at |-> Some(now) ])],
             call, kind)

\* The catch (trelloError) block of updateTrelloCard: mark the row failed,
\* re-raise.  The design request is not written.
updateFailed(st, call, id, kind, env) ==
  IF ~env.logWriteErr
  THEN Throw(st, Rejected(call), "ledger_update")
  ELSE Throw([st EXCEPT !.ledger = SetRow(@, id,
                    [ status        |-> "failed",
                      error_message |-> kind,
                      retry_count   |-> 0,
                      next_retry_at |-> Some(calculateNextRetry(0)) ])],
             call, kind)

updateTrelloCard(st, cfg, r, env) ==
  LET call0 == StartCall("update", r, cfg)
  IN
  IF r \notin DOMAIN st.requests THEN Throw(st, call0, "not_found")
  ELSE IF st.requests[r].trello_card_id = None THEN Throw(st, call0, "no_card")
  ELSE IF UpdateConfigMissing(cfg) THEN Throw(st, call0, "config")
  ELSE IF ~env.insertLog THEN Throw(st, Rejected(call0), "ledger_insert")
  ELSE
  LET id    == Len(st.ledger) + 1
      st2   == [st EXCEPT !.ledger =
                  Append(@, NewSyncLog(r, "update", st.requests[r].trello_card_id))]
      call2 == [call0 EXCEPT !.events = <<"insert", "provider">>, !.log_id = id]
  IN
  IF ~FallbackOk(env) THEN updateFailed(st2, call2, id, "provider", env)
  ELSE IF ~env.logWrite THEN updateFailed(st2, Rejected(call2), id, "ledger_update", env)
  ELSE
  LET st3   == [st2 EXCEPT !.ledger = SetRow(@, id,
                      [ status          |-> "completed",
                        trello_response |-> st.requests[r].trello_card_id,
                        synced_by       |-> FallbackMethod(env),
                        completed_at    |-> Some(now) ])]
      st4   == IF env.drWrite
               THEN [st3 EXCEPT !.requests = SetRequest(@, r,
                       [ sync_status |-> "synced",
                         sync_error  |-> NULL ])]
               ELSE st3
      call4 == IF env.drWrite THEN call2 ELSE Rejected(call2)
      call5 == [call4 EXCEPT !.audit = env.audit]
  IN
  IF logActivity(env.audit).threw
  THEN updateFailed(st4, call5, id, "audit", env)
  ELSE [st4 EXCEPT !.call = [call5 EXCEPT !.result = "success"]]

addTrelloComment(st, cfg, r, env) ==
  LET call0 == StartCall("comment", r, cfg)
  IN
  IF r \notin DOMAIN st.requests THEN Throw(st, call0, "not_found")
  ELSE IF st.requests[r].trello_card_id = None THEN Throw(st, call0, "no_card")
  ELSE IF UpdateConfigMissing(cfg) THEN Throw(st, call0, "config")
  ELSE
  LET call2 == [call0 EXCEPT !.events = <<"provider">>]
      call3 == [call2 EXCEPT !.audit = env.audit]
  IN IF ~FallbackOk(env) THEN Throw(st, call2, "provider")
     ELSE IF logActivity(env.audit).threw THEN Throw(st, call3, "audit")
     ELSE [st EXCEPT !.call = [call3 EXCEPT !.result = "success"]]

\* onSubmit had createTrelloCard been awaited outside a try/catch of its
\* own: its error reaches the outer catch, which shows it and skips the
\* redirect.
onSubmit_noCatch(st, cfg, insertOk, env) ==
  IF ~insertOk
  THEN [st |-> st, sub |-> [NoSubmission EXCEPT !.error = "insert"]]
  ELSE LET r   == Len(st.requests) + 1
           st1 == [st EXCEPT !.requests = Append(@, NewRequest)]
           st2 == createTrelloCard(st1, cfg, r, env)
           ok  == st2.call.result = "success"
       IN  [st |-> st2,
            sub |-> [request |-> r, redirected |-> ok,
                     error |-> IF ok THEN NULL ELSE "sync",
                     sync |-> st2.call.result]]

\* onSubmit of the new-request page after the form data is prepared:
\* insertDesignRequest, then createTrelloCard inside its own try/catch, then
\* the redirect.  Returns the store contents and the submission's outcome.
onSubmit(st, cfg, insertOk, env) ==
  IF ~insertOk
  THEN [st |-> st, sub |-> [NoSubmission EXCEPT !.error = "insert"]]
  ELSE LET r   == Len(st.requests) + 1
           st1 == [st EXCEPT !.requests = Append(@, NewRequest)]
           st2 == createTrelloCard(st1, cfg, r, env)
       IN  [st |-> st2,
            sub |-> [request |-> r, redirected |-> TRUE, error |-> NULL,
                     sync |-> st2.call.result]]

\* ----------------------------------------------------------------- sweeper
Min(a, b) == IF a <= b THEN a ELSE b

Ids(L) == [i \in 1..Len(L) |-> i]

\* The query had it taken every row that is not completed, whatever its
\* retry count and its retry instant.
Eligible_alsoPermanent(row, t) ==
  /\ row.status \in {"failed", "retrying", "failed_permanently"}
  /\ row.next_retry_at # None => row.next_retry_at[1] <= t

\* .in('status', ['failed','retrying']).lte('next_retry_at', now).lt('retry_count', 5)
Eligible(row, t) ==
  /\ row.status \in {"failed", "retrying"}
  /\ row.next_retry_at # None
  /\ row.next_retry_at[1] <= t
  /\ row.retry_count < MaxRetryCount

SelectFailedSyncs_noLimit(L, t) == SelectSeq(Ids(L), LAMBDA i : Eligible(L[i], t))

\* ... .order('created_at', ascending).limit(10): the ids of the selected rows.
SelectFailedSyncs(L, t) ==
  LET hits == SelectSeq(Ids(L), LAMBDA i : Eligible(L[i], t))
  IN  SubSeq(hits, 1, Min(Len(hits), BatchLimit))

\* The row as the query returned it.
Snapshot(L, i) ==
  [ id |-> i, design_request_id |-> L[i].design_request_id,
    operation |-> L[i].operation, retry_count |-> L[i].retry_count ]

IdleSweep == [pc |-> "idle", batch |-> <<>>, selected |-> <<>>, results |-> <<>>]

\* retryCreateTrelloCard / retryUpdateTrelloCard
retrySync(st, cfg, syncLog, env) ==
  IF syncLog.operation = "create"
  THEN createTrelloCard(st, cfg, syncLog.design_request_id, env)
  ELSE updateTrelloCard(st, cfg, syncLog.design_request_id, env)

\* The bookkeeping had it compared newRetryCount > 5: a sixth retry.
RetryBookkeeping_sixthRetry(syncLog, kind) ==
  LET newRetryCount == syncLog.retry_count + 1
  IN  [ status        |-> IF newRetryCount > MaxRetryCount THEN "failed_permanently"
                          ELSE "failed",
        error_message |-> kind,
        retry_count   |-> newRetryCount,
        next_retry_at |-> IF newRetryCount > MaxRetryCount THEN None
                          ELSE Some(calculateNextRetry(newRetryCount)) ]

\* The fields written to a row after its retry failed again.
RetryBookkeeping(syncLog, kind) ==
  LET newRetryCount == syncLog.retry_count + 1
  IN  [ status        |-> IF newRetryCount >= MaxRetryCount THEN "failed_permanently"
                          ELSE "failed",
        error_message |-> kind,
        retry_count   |-> newRetryCount,
        next_retry_at |-> IF newRetryCount >= MaxRetryCount THEN None
                          ELSE Some(calculateNextRetry(newRetryCount)) ]

\* ------------------------------------------------- what a handler asks for
\* An answer of the environment that the handler never asks for is left at
\* its default, so that one run is one step.
DefaultEnv ==
  [ lists |-> "ok", provider |-> "mcp", insertLog |-> TRUE, drWrite |-> TRUE,
    logWrite |-> TRUE, logWriteErr |-> TRUE, drWriteErr |-> TRUE, audit |-> "ok" ]

Unasked(env, lists, insert, prov, dr, log, logErr, drErr, audit) ==
  /\ audit  \/ env.audit = "ok"
  /\ lists  \/ env.lists = "ok"
  /\ insert \/ env.insertLog
  /\ prov   \/ env.provider = "mcp"
  /\ dr     \/ env.drWrite
  /\ log    \/ env.logWrite
  /\ logErr \/ env.logWriteErr
  /\ drErr  \/ env.drWriteErr

\* createTrelloCard past its configuration check.
CreateAsks(lookup, env) ==
  LET insert == ~(lookup /\ env.lists = "fail")
      prov   == insert /\ env.insertLog
      ok     == prov /\ FallbackOk(env)
      logErr == prov /\ (~FallbackOk(env) \/ ~env.logWrite)
  IN  Unasked(env, lookup, insert, prov, ok, ok, logErr, logErr /\ env.logWriteErr,
              ok /\ env.logWrite)

\* updateTrelloCard past its configuration check.
UpdateAsks(env) ==
  LET prov   == env.insertLog
      ok     == prov /\ FallbackOk(env)
      logErr == prov /\ (~FallbackOk(env) \/ ~env.logWrite)
  IN  Unasked(env, FALSE, TRUE, prov, ok /\ env.logWrite, ok, logErr, FALSE,
              ok /\ env.logWrite)

\* addTrelloComment past its configuration check.
CommentAsks(env) ==
  Unasked(env, FALSE, FALSE, TRUE, FALSE, FALSE, FALSE, FALSE, FallbackOk(env))

CreateEnvsLookup == { env : env \in { e \in EnvFields : CreateAsks(TRUE, e) } }
CreateEnvsList == { env : env \in { e \in EnvFields : CreateAsks(FALSE, e) } }
UpdateEnvsAll == { env : env \in { e \in EnvFields : UpdateAsks(e) } }
CommentEnvsAll == { env : env \in { e \in EnvFields : CommentAsks(e) } }

CreateEnvs(st, cfg, r) ==
  IF r \notin DOMAIN st.requests \/ CreateConfigMissing(cfg) THEN {DefaultEnv}
  ELSE IF NeedsListLookup(cfg) THEN CreateEnvsLookup ELSE CreateEnvsList

UpdateReached(st, cfg, r) ==
  /\ r \in DOMAIN st.requests
  /\ st.requests[r].trello_card_id # None
  /\ ~UpdateConfigMissing(cfg)

UpdateEnvs(st, cfg, r) == IF UpdateReached(st, cfg, r) THEN UpdateEnvsAll ELSE {DefaultEnv}

CommentEnvs(st, cfg, r) == IF UpdateReached(st, cfg, r) THEN CommentEnvsAll ELSE {DefaultEnv}

RetryEnvs(st, cfg, syncLog) ==
  IF syncLog.operation = "create"
  THEN CreateEnvs(st, cfg, syncLog.design_request_id)
  ELSE UpdateEnvs(st, cfg, syncLog.design_request_id)

\* ----------------------------------------------------------------- actions
Init ==
  /\ requests = <<>>
  /\ ledger = <<>>
  /\ cards = <<>>
  /\ now = 0
  /\ faults = 0
  /\ sweep = IdleSweep
  /\ lastCall = NoCall
  /\ submission = NoSubmission
  /\ racers = NoRacers
  /\ probe = NoProbe
  /\ trelloMCP = NewTrelloMCP

\* Put the result of a handler into the state, within the limits lim of the
\* specification: the ledger holds at most lim.log rows and the store
\* rejects at most lim.faults writes in a behaviour.
Commit(st, lim) ==
  /\ Len(st.ledger) <= lim.log
  /\ faults + st.call.rejected <= lim.faults
  /\ faults' = faults + st.call.rejected
  /\ requests' = st.requests
  /\ ledger' = st.ledger
  /\ cards' = st.cards
  /\ lastCall' = st.call

\* No processFailedSyncs run is in its loop; the result of a finished run is
\* gone once another step is taken.
NoSweep ==
  /\ sweep.pc # "loop"
  /\ sweep' = IdleSweep

OnSubmit(cfg, insertOk, env, lim) ==
  /\ NoSweep
  /\ Len(requests) < MaxRequests
  /\ LET res == onSubmit([Cur EXCEPT !.call = NoCall], cfg, insertOk, env)
     IN  /\ Commit(res.st, lim)
         /\ submission' = res.sub
  /\ now' = now
  /\ UNCHANGED <<racers, probe, trelloMCP>>

CreateTrelloCard(cfg, r, env, lim) ==
  /\ NoSweep
  /\ Commit(createTrelloCard(Cur, cfg, r, env), lim)
  /\ submission' = NoSubmission
  /\ now' = now
  /\ UNCHANGED <<racers, probe, trelloMCP>>

UpdateTrelloCard(cfg, r, env, lim) ==
  /\ NoSweep
  /\ Commit(updateTrelloCard(Cur, cfg, r, env), lim)
  /\ submission' = NoSubmission
  /\ now' = now
  /\ UNCHANGED <<racers, probe, trelloMCP>>

AddTrelloComment(cfg, r, env, lim) ==
  /\ NoSweep
  /\ Commit(addTrelloComment(Cur, cfg, r, env), lim)
  /\ submission' = NoSubmission
  /\ now' = now
  /\ UNCHANGED <<racers, probe, trelloMCP>>

\* processFailedSyncs up to its loop: the query.
ProcessFailedSyncs(queryOk) ==
  /\ sweep.pc # "loop"
  /\ IF ~queryOk
     THEN sweep' = [IdleSweep EXCEPT !.pc = "threw"]
     ELSE LET sel == SelectFailedSyncs(ledger, now)
          IN  sweep' = [ pc       |-> IF sel = <<>> THEN "returned" ELSE "loop",
                         batch    |-> [k \in 1..Len(sel) |-> Snapshot(ledger, sel[k])],
                         selected |-> sel,
                         results  |-> <<>> ]
  /\ lastCall' = NoCall
  /\ submission' = NoSubmission
  /\ UNCHANGED <<requests, ledger, cards, now, faults>>
  /\ UNCHANGED <<racers, probe, trelloMCP>>

\* One iteration of the loop of processFailedSyncs, and the return after
\* the last one.  bookWrite: the store accepts the write of the retry
\* bookkeeping.
SweepRetry(cfg, env, bookWrite, lim) ==
  /\ sweep.pc = "loop"
  /\ LET syncLog == Head(sweep.batch)
         st      == retrySync(Cur, cfg, syncLog, env)
         done    == IF Len(sweep.batch) = 1 THEN "returned" ELSE "loop"
     IN  IF st.call.result = "success"
         THEN /\ bookWrite
              /\ Commit(st, lim)
              /\ sweep' = [sweep EXCEPT
                   !.pc = done, !.batch = Tail(@),
                   !.results = Append(@, [sync_log_id |-> syncLog.id, success |-> TRUE])]
         ELSE IF bookWrite
         THEN /\ Commit([st EXCEPT !.ledger =
                          SetRow(@, syncLog.id, RetryBookkeeping(syncLog, st.call.error))], lim)
              /\ sweep' = [sweep EXCEPT
                   !.pc = done, !.batch = Tail(@),
                   !.results = Append(@, [sync_log_id |-> syncLog.id, success |-> FALSE,
                                          retry_count |-> syncLog.retry_count + 1])]
         ELSE /\ Commit([st EXCEPT !.call = Rejected(@)], lim)
              /\ sweep' = [sweep EXCEPT !.pc = "threw"]
  /\ submission' = NoSubmission
  /\ now' = now
  /\ UNCHANGED <<racers, probe, trelloMCP>>

\* The next instant at which a row becomes due for retry.
DueTimes ==
  LET due == { ledger[i].next_retry_at[1] :
                 i \in { j \in 1..Len(ledger) : ledger[j].next_retry_at # None } }
  IN  { t \in due : t > now /\ \A u \in due : u > now => t <= u }

\* Time passes, up to the next instant at which some row becomes due.
Tick(t, lim) ==
  /\ NoSweep
  /\ t > now
  /\ t <= lim.clock
  /\ now' = t
  /\ lastCall' = NoCall
  /\ submission' = NoSubmission
  /\ UNCHANGED <<requests, ledger, cards, faults>>
  /\ UNCHANGED <<racers, probe, trelloMCP>>

\* The calls of the sync handlers with every trello_config of lim.configs,
\* every argument and every answer of the environment.
Calls(lim) ==
  \/ \E cfg \in lim.configs :
       \E env \in CreateEnvs([requests |-> <<NewRequest>>], cfg, 1) :
          Rejections(env) <= lim.faults /\ OnSubmit(cfg, TRUE, env, lim)
  \/ OnSubmit(None, FALSE, DefaultEnv, lim)
  \/ \E cfg \in lim.configs, r \in 0..Len(requests) :
       \E env \in CreateEnvs(Cur, cfg, r) :
          Rejections(env) <= lim.faults /\ CreateTrelloCard(cfg, r, env, lim)
  \/ \E cfg \in lim.configs, r \in 0..Len(requests) :
       \E env \in UpdateEnvs(Cur, cfg, r) :
          Rejections(env) <= lim.faults /\ UpdateTrelloCard(cfg, r, env, lim)
  \/ \E cfg \in lim.configs, r \in 0..Len(requests) :
       \E env \in CommentEnvs(Cur, cfg, r) :
          Rejections(env) <= lim.faults /\ AddTrelloComment(cfg, r, env, lim)

\* The sweeper and the clock.
Sweeps(lim) ==
  \/ \E ok \in BOOLEAN : ProcessFailedSyncs(ok)
  \/ /\ sweep.pc = "loop"
     /\ \E cfg \in lim.configs, bw \in BOOLEAN :
          \E env \in RetryEnvs(Cur, cfg, Head(sweep.batch)) :
             Rejections(env) <= lim.faults /\ SweepRetry(cfg, env, bw, lim)
  \/ \E t \in DueTimes : Tick(t, lim)

\* The store accepts every write.
Reliable == [faults |-> 0, log |-> MaxLog, clock |-> MaxClock, configs |-> ConfigSet]

Next == Calls(Reliable) \/ Sweeps(Reliable)

Spec == Init /\ [][Next]_vars

\* The store rejects up to MaxStoreFaults writes.
Faulty == [Reliable EXCEPT !.faults = MaxStoreFaults]

NextStoreFaults == Calls(Faulty) \/ Sweeps(Faulty)

SpecStoreFaults == Init /\ [][NextStoreFaults]_vars

\* ------------------------------------------- the sweeper on a long ledger
\* The instant of the retry after c failed retries of a row that failed
\* first at instant 0.
RECURSIVE RetryInstant(_)
RetryInstant(c) == IF c = 0 THEN BaseDelay ELSE RetryInstant(c - 1) + BaseDelay * Pow2(c)

\* A row that failed at the provider at instant 0 and then in c retries, for
\* want of a trello_config.
FailedSyncLog(op, card, c) ==
  [ NewSyncLog(1, op, card) EXCEPT
      !.status = "failed",
      !.error_message = IF c = 0 THEN "provider" ELSE "config",
      !.retry_count = c,
      !.next_retry_at = Some(RetryInstant(c)) ]

\* The row of the first create attempt: failed, completed or, both writes of
\* its outcome having been rejected, in_progress.
FirstSyncLog(kind, c) ==
  IF kind = "completed"
  THEN [ NewSyncLog(1, "create", None) EXCEPT
           !.status = "completed", !.trello_card_id = Some(1),
           !.trello_response = Some(1), !.synced_by = "mcp", !.completed_at = Some(0) ]
  ELSE IF kind = "in_progress" THEN NewSyncLog(1, "create", None)
  ELSE FailedSyncLog("create", None, c)

SweepFirstKinds == {"failed", "completed", "in_progress"}
SweepLens == (MaxSweepLog - 1)..MaxSweepLog
SweepRounds == 3..4

\* The ledger of len rows of one design request after its first create
\* attempt, n more create attempts that failed at the provider and, where the
\* request has a card, u failed updates, all of it at instant 0; then c
\* rounds of retries that failed for want of a trello_config, and the clock
\* at the next retry instant.
InitSweep ==
  \E kind \in SweepFirstKinds, len \in SweepLens, u \in 0..1, c \in SweepRounds :
    LET card     == IF kind = "failed" THEN None ELSE Some(1)
        updates  == IF u = 1 /\ card # None
                    THEN <<FailedSyncLog("update", card, c)>> ELSE <<>>
        n        == len - 1 - Len(updates)
        attempts == n + (IF kind = "failed" THEN 1 ELSE 0)
    IN  /\ ledger = <<FirstSyncLog(kind, c)>>
                      \o [i \in 1..n |-> FailedSyncLog("create", None, c)]
                      \o updates
        /\ requests = << [ NewRequest EXCEPT
                             !.sync_status = "failed",
                             !.sync_error = "provider",
                             !.sync_attempts = attempts,
                             !.trello_card_id = card,
                             !.trello_card_url = card ] >>
        /\ cards = IF card = None THEN <<>> ELSE <<1>>
        /\ now = RetryInstant(c)
        /\ faults = 0
        /\ sweep = IdleSweep
        /\ lastCall = NoCall
        /\ submission = NoSubmission
        /\ racers = NoRacers
        /\ probe = NoProbe
        /\ trelloMCP = NewTrelloMCP

\* The trello_config is complete, or was never set.
SweepConfigs ==
  { cfg \in ConfigSet : cfg = None \/ (~CreateConfigMissing(cfg) /\ ~NeedsListLookup(cfg)) }

Sweeping == [faults |-> 0, log |-> MaxSweepLog, clock |-> MaxSweepClock, configs |-> SweepConfigs]

NextSweep == Sweeps(Sweeping)

SpecSweep == InitSweep /\ [][NextSweep]_vars

\* ------------------------------------ createTrelloCard runs, await by await
\* Concurrent runs of createTrelloCard for design request 1 of a client with
\* a complete trello_config and a list id, each advancing from one await to
\* the next; the store accepts every write.
MaxRacers == 2

IdleRacer == [pc |-> "idle", snapshot |-> NewRequest, log_id |-> 0, card |-> 0]

Others == <<now, faults, sweep, lastCall, submission, probe, trelloMCP>>

\* createTrelloCard had it returned at once for a request that has a card.
CreateRead_onlyWithoutCard(p) ==
  /\ racers[p].pc = "idle"
  /\ racers' = [racers EXCEPT ![p] =
        [@ EXCEPT !.pc = IF requests[1].trello_card_id = None THEN "read" ELSE "done",
                  !.snapshot = requests[1]]]
  /\ UNCHANGED <<requests, ledger, cards>>
  /\ UNCHANGED Others

\* select('*, client:clients(*), user:users(*)').single(), the configuration
\* check and the card data.
CreateRead(p) ==
  /\ racers[p].pc = "idle"
  /\ racers' = [racers EXCEPT ![p] = [@ EXCEPT !.pc = "read", !.snapshot = requests[1]]]
  /\ UNCHANGED <<requests, ledger, cards>>
  /\ UNCHANGED Others

\* await createSyncLog({... status: 'in_progress' ...})
CreateInsertLog(p) ==
  /\ racers[p].pc = "read"
  /\ ledger' = Append(ledger, NewSyncLog(1, "create", None))
  /\ racers' = [racers EXCEPT ![p] = [@ EXCEPT !.pc = "inserted", !.log_id = Len(ledger) + 1]]
  /\ UNCHANGED <<requests, cards>>
  /\ UNCHANGED Others

\* await callTrelloWithFallback('create', cardData, trelloConfig)
CreateCallProvider(p, ok) ==
  /\ racers[p].pc = "inserted"
  /\ IF ok
     THEN /\ cards' = Append(cards, 1)
          /\ racers' = [racers EXCEPT ![p] = [@ EXCEPT !.pc = "carded", !.card = Len(cards) + 1]]
     ELSE /\ cards' = cards
          /\ racers' = [racers EXCEPT ![p] = [@ EXCEPT !.pc = "failed"]]
  /\ UNCHANGED <<requests, ledger>>
  /\ UNCHANGED Others

\* await supabase.from('design_requests').update({trello_card_id, ...})
CreateStoreCard(p) ==
  /\ racers[p].pc = "carded"
  /\ requests' = SetRequest(requests, 1,
                   [ trello_card_id  |-> Some(racers[p].card),
                     trello_card_url |-> Some(racers[p].card),
                     sync_status     |-> "synced",
                     sync_error      |-> NULL ])
  /\ racers' = [racers EXCEPT ![p] = [@ EXCEPT !.pc = "stored"]]
  /\ UNCHANGED <<ledger, cards>>
  /\ UNCHANGED Others

\* await updateSyncLog(syncLog.id, {status: 'completed', ...}) and the return
CreateComplete(p) ==
  /\ racers[p].pc = "stored"
  /\ ledger' = SetRow(ledger, racers[p].log_id,
                 [ status          |-> "completed",
                   trello_card_id  |-> Some(racers[p].card),
                   trello_response |-> Some(racers[p].card),
                   synced_by       |-> "mcp",
                   completed_at    |-> Some(now) ])
  /\ racers' = [racers EXCEPT ![p] = [@ EXCEPT !.pc = "done"]]
  /\ UNCHANGED <<requests, cards>>
  /\ UNCHANGED Others

\* catch (trelloError): await updateSyncLog(syncLog.id, {status: 'failed', ...})
CreateLogFailure(p) ==
  /\ racers[p].pc = "failed"
  /\ ledger' = SetRow(ledger, racers[p].log_id,
                 [ status        |-> "failed",
                   error_message |-> "provider",
                   retry_count   |-> 0,
                   next_retry_at |-> Some(calculateNextRetry(0)) ])
  /\ racers' = [racers EXCEPT ![p] = [@ EXCEPT !.pc = "logged"]]
  /\ UNCHANGED <<requests, cards>>
  /\ UNCHANGED Others

\* catch (trelloError): the update of the design request, and the throw
CreateFailRequest(p) ==
  /\ racers[p].pc = "logged"
  /\ requests' = SetRequest(requests, 1,
                   [ sync_status   |-> "failed",
                     sync_error    |-> "provider",
                     sync_attempts |-> racers[p].snapshot.sync_attempts + 1 ])
  /\ racers' = [racers EXCEPT ![p] = [@ EXCEPT !.pc = "threw"]]
  /\ UNCHANGED <<ledger, cards>>
  /\ UNCHANGED Others

\* Design request 1 is inserted and no run has started.
InitRace ==
  /\ requests = <<NewRequest>>
  /\ ledger = <<>>
  /\ cards = <<>>
  /\ now = 0
  /\ faults = 0
  /\ sweep = IdleSweep
  /\ lastCall = NoCall
  /\ submission = NoSubmission
  /\ racers = [p \in 1..MaxRacers |-> IdleRacer]
  /\ probe = NoProbe
  /\ trelloMCP = NewTrelloMCP

NextRace ==
  \E p \in 1..MaxRacers :
    \/ CreateRead(p)
    \/ CreateInsertLog(p)
    \/ \E ok \in BOOLEAN : CreateCallProvider(p, ok)
    \/ CreateStoreCard(p)
    \/ CreateComplete(p)
    \/ CreateLogFailure(p)
    \/ CreateFailRequest(p)

SpecRace == InitRace /\ [][NextRace]_vars

\* ------------------------------------------------- the helper functions
\* A helper function evaluated on its own: probe holds its name and its
\* arguments (in), and after the call what it returned (out).
MaxProbeClock == 3

Asked(fn, in) == [fn |-> fn, in |-> in, out |-> None]

Stores == <<requests, ledger, cards, faults, sweep, lastCall, submission, racers>>

InitStores ==
  /\ requests = <<>>
  /\ ledger = <<>>
  /\ cards = <<>>
  /\ faults = 0
  /\ sweep = IdleSweep
  /\ lastCall = NoCall
  /\ submission = NoSubmission
  /\ racers = NoRacers

\* calculateNextRetry(retryCount) at any instant, for the retry counts the
\* sweeper's query lets through.
NextRetryInputs == { Asked("calculateNextRetry", [retryCount |-> n]) : n \in 0..(MaxRetryCount - 1) }

CalculateNextRetry ==
  /\ probe.fn = "calculateNextRetry"
  /\ probe.out = None
  /\ probe' = [probe EXCEPT !.out = Some(calculateNextRetry(probe.in.retryCount))]
  /\ UNCHANGED <<now, trelloMCP>>
  /\ UNCHANGED Stores

\* updateTrelloCard's updateData: each of the five fields is left out (None)
\* or supplied, with a falsy or a truthy value.
UpdateDataSet ==
  [ name   : {None, Some(""), Some("N")},
    desc   : {None, Some(""), Some("D")},
    due    : {None, Some(""), Some("2026-01-31")},
    idList : {None, Some(""), Some("L9")},
    closed : {None, Some(FALSE), Some(TRUE)} ]

UpdateFields == {"name", "desc", "due", "idList", "closed"}

\* if (updateData.f) trelloUpdateData.f = updateData.f
IfTruthy(x) == IF x # None /\ x[1] # "" THEN x ELSE None

\* new Date(updateData.due).toISOString()
ToISOString(x) == IF x = None THEN None ELSE Some(<<"iso", x[1]>>)

\* The trelloUpdateData that updateTrelloCard prepares.
trelloUpdateData(updateData) ==
  [ name   |-> IfTruthy(updateData.name),
    desc   |-> IfTruthy(updateData.desc),
    due    |-> ToISOString(IfTruthy(updateData.due)),
    idList |-> IfTruthy(updateData.idList),
    closed |-> updateData.closed ]

\* JSON.stringify leaves out the keys whose value is undefined.
Stringify(obj) == { f \in DOMAIN obj : obj[f] # None }

\* callTrelloWithFallback('update', {id, ...trelloUpdateData}): the fields of
\* the card in the provider request.  The MCP path names all five, undefined
\* where trelloUpdateData has none; the direct API path spreads the object.
UpdateFieldsSent(data, method) ==
  IF method = "mcp"
  THEN Stringify([ name |-> data.name, desc |-> data.desc, due |-> data.due,
                   idList |-> data.idList, closed |-> data.closed ])
  ELSE Stringify(data)

UpdateInputs ==
  { Asked("updateFields", [updateData |-> u, method |-> m]) :
      u \in UpdateDataSet, m \in {"mcp", "direct_api"} }

SendUpdate ==
  /\ probe.fn = "updateFields"
  /\ probe.out = None
  /\ probe' = [probe EXCEPT !.out =
        Some(UpdateFieldsSent(trelloUpdateData(probe.in.updateData), probe.in.method))]
  /\ UNCHANGED <<now, trelloMCP>>
  /\ UNCHANGED Stores

\* board.lists?.[0]?.id and lists[0]?.id: the first list's id, or undefined
\* (None) when there is none.
FirstListId(lists) == IF lists = None \/ lists[1] = <<>> THEN None ELSE Some(lists[1][1])

\* getDefaultListId: the configured default list, else the board's first list
\* as the MCP server answers it, else (the MCP call threw) as the direct API
\* answers it.  mcp and api are the two answers: "threw", or the lists
\* returned (for MCP, None when the board comes back without a lists member).
getDefaultListId(trelloConfig, mcp, api) ==
  IF ~Falsy(trelloConfig.default_list_id)
  THEN [threw |-> FALSE, id |-> Some(trelloConfig.default_list_id)]
  ELSE IF mcp # "threw"
  THEN [threw |-> FALSE, id |-> FirstListId(mcp)]
  ELSE IF api # "threw"
  THEN [threw |-> FALSE, id |-> FirstListId(Some(api))]
  ELSE [threw |-> TRUE, id |-> None]

\* cardData.idList: trelloConfig.list_id || await getDefaultListId(trelloConfig)
cardIdList(trelloConfig, mcp, api) ==
  IF ~Falsy(trelloConfig.list_id)
  THEN [threw |-> FALSE, id |-> Some(trelloConfig.list_id)]
  ELSE getDefaultListId(trelloConfig, mcp, api)

BoardLists == {<<>>, <<"L1">>, <<"L1", "L2">>}

ListInputs ==
  { Asked("cardIdList",
          [trelloConfig |-> [list_id |-> l, default_list_id |-> d],
           lists |-> b, mcp |-> m, api |-> a]) :
      l \in {NULL, "", "L0"}, d \in {NULL, "", "D0"}, b \in BoardLists,
      m \in {"threw", "no lists", "lists"}, a \in {"threw", "lists"} }

ResolveList ==
  /\ probe.fn = "cardIdList"
  /\ probe.out = None
  /\ LET in  == probe.in
         mcp == CASE in.mcp = "threw"    -> "threw"
                  [] in.mcp = "no lists" -> None
                  [] in.mcp = "lists"    -> Some(in.lists)
         api == IF in.api = "threw" THEN "threw" ELSE in.lists
     IN  probe' = [probe EXCEPT !.out = Some(cardIdList(in.trelloConfig, mcp, api))]
  /\ UNCHANGED <<now, trelloMCP>>
  /\ UNCHANGED Stores

Priorities == {"standard", "urgent"}
RequestTypes == {"logo", "web"}

\* A label map of trello_config: absent (None), or an object giving label ids
\* to some of the keys; "" stands for a value that is no label id.
LabelMaps(keys, ids) ==
  {None} \cup { Some(m) : m \in UNION { [S -> ids] : S \in SUBSET keys } }

\* map[key] in JavaScript: undefined when the object has no such key.
Lookup(map, key) == IF key \in DOMAIN map THEN map[key] ELSE NULL

\* if (map) { const label = map[key]; if (label) labels.push(label); }
PushLabel(labels, map, key) ==
  IF map # None /\ ~Falsy(Lookup(map[1], key))
  THEN Append(labels, Lookup(map[1], key))
  ELSE labels

buildCardLabels_typeFirst(designRequest, trelloConfig) ==
  PushLabel(PushLabel(<<>>, trelloConfig.type_labels, designRequest.request_type),
            trelloConfig.priority_labels, designRequest.priority)

buildCardLabels(designRequest, trelloConfig) ==
  PushLabel(PushLabel(<<>>, trelloConfig.priority_labels, designRequest.priority),
            trelloConfig.type_labels, designRequest.request_type)

LabelInputs ==
  { Asked("buildCardLabels",
          [designRequest |-> [priority |-> p, request_type |-> t],
           trelloConfig  |-> [priority_labels |-> pl, type_labels |-> tl]]) :
      p \in Priorities, t \in RequestTypes,
      pl \in LabelMaps(Priorities, {"", "P"}), tl \in LabelMaps(RequestTypes, {"", "T"}) }

\* Two calls with the same arguments, one after the other: the first fills
\* out with <<labels>>, the second appends its own result.
BuildCardLabels ==
  /\ probe.fn = "buildCardLabels"
  /\ Len(probe.out) < 2
  /\ probe' = [probe EXCEPT !.out =
        Append(@, buildCardLabels(probe.in.designRequest, probe.in.trelloConfig))]
  /\ UNCHANGED <<now, trelloMCP>>
  /\ UNCHANGED Stores

MaxFiles == 2

\* One piece of the description text: a bold head and what follows it.
Part(head, body) == [head |-> head, body |-> body]

\* if (designRequest.f) description += `**Head:**\n${designRequest.f}\n\n`
Section(head, field) == IF Falsy(field) THEN <<>> ELSE <<Part(head, field)>>

\* new Date(created_at).toLocaleDateString()
ToLocaleDateString(t) == <<"date", t>>

\* if (file_urls && file_urls.length > 0) ... `${file_urls.length} file(s)`
Attached(file_urls) ==
  IF file_urls # None /\ Len(file_urls[1]) > 0
  THEN <<Part("Attached Files", Len(file_urls[1]))>>
  ELSE <<>>

buildCardDescription_headEveryNonNull(designRequest) ==
  <<Part("Design Request", designRequest.short_id)>>
    \o (IF designRequest.context = NULL THEN <<>> ELSE <<Part("Context", designRequest.context)>>)
    \o Section("Design Needs", designRequest.design_needs)
    \o Section("Key Message", designRequest.key_message)
    \o Section("Size/Format", designRequest.size_format)
    \o Section("Additional Notes", designRequest.additional_notes)
    \o <<Part("Contact", designRequest.contact_email),
          Part("Priority", designRequest.priority),
          Part("Submitted", ToLocaleDateString(designRequest.created_at))>>
    \o Attached(designRequest.file_urls)

buildCardDescription(designRequest) ==
  <<Part("Design Request", designRequest.short_id)>>
    \o Section("Context", designRequest.context)
    \o Section("Design Needs", designRequest.design_needs)
    \o Section("Key Message", designRequest.key_message)
    \o Section("Size/Format", designRequest.size_format)
    \o Section("Additional Notes", designRequest.additional_notes)
    \o <<Part("Contact", designRequest.contact_email),
          Part("Priority", designRequest.priority),
          Part("Submitted", ToLocaleDateString(designRequest.created_at))>>
    \o Attached(designRequest.file_urls)

FileUrls == {None} \cup { Some([i \in 1..n |-> "file"]) : n \in 0..MaxFiles }

DescriptionInputs ==
  { Asked("buildCardDescription",
          [designRequest |->
             [short_id |-> "DR-1", context |-> c, design_needs |-> d,
              key_message |-> k, size_format |-> z, additional_notes |-> a,
              contact_email |-> "user@client", priority |-> "standard",
              created_at |-> 0, file_urls |-> f]]) :
      c \in {NULL, "", "context"}, d \in {NULL, "", "needs"},
      k \in {NULL, "", "message"}, z \in {NULL, "", "size"},
      a \in {NULL, "", "notes"}, f \in FileUrls }

BuildCardDescription ==
  /\ probe.fn = "buildCardDescription"
  /\ probe.out = None
  /\ probe' = [probe EXCEPT !.out = Some(buildCardDescription(probe.in.designRequest))]
  /\ UNCHANGED <<now, trelloMCP>>
  /\ UNCHANGED Stores

\* What fetch comes back with: a response (status, status text, body text),
\* or a rejection with a TypeError when the network fails.
Response(status, statusText, text) ==
  [rejected |-> FALSE, status |-> status, statusText |-> statusText, text |-> text, cause |-> ""]

NetworkFailure(cause) ==
  [rejected |-> TRUE, status |-> "", statusText |-> "", text |-> "", cause |-> cause]

FetchOutcomes ==
  {Response("200", "OK", "{}")}
    \cup { Response(st[1], st[2], t) :
             st \in {<<"400", "Bad Request">>, <<"401", "Unauthorized">>, <<"500", "Server Error">>},
             t \in {"", "invalid id"} }
    \cup { NetworkFailure(c) : c \in {"timeout", "dns", "connection reset"} }

\* response.ok
Ok(response) == response.status = "200"

\* A thrown JavaScript error: its class and the pieces of its message.
Error(kind, message) == [kind |-> kind, message |-> message]

Returned == [threw |-> FALSE, error |-> Error("", <<>>)]
Thrown(err) == [threw |-> TRUE, error |-> err]

\* The request callTrelloAPI of the app hands to fetch.  data is None for no
\* data, else the set of its keys.
AppRequest(method, data) ==
  [ method       |-> method,
    query        |-> {"key", "token"} \cup (IF method = "GET" /\ data # None THEN data[1] ELSE {}),
    body         |-> IF method # "GET" /\ data # None THEN Some([json |-> data[1]]) ELSE None,
    content_type |-> "application/json" ]

\* callTrelloAPI of the app: after fetch.
AppResult(outcome) ==
  IF outcome.rejected THEN Thrown(Error("TypeError", <<outcome.cause>>))
  ELSE IF ~Ok(outcome)
  THEN Thrown(Error("Error", <<"Trello API error:", outcome.status, outcome.text>>))
  ELSE Returned

\* The request TrelloMCPServer.callTrelloAPI hands to fetch: params holds key,
\* token and the data; it goes into the URL of a GET and into the body of
\* anything else.
ServerRequest(method, data) ==
  LET params == {"key", "token"} \cup (IF data = None THEN {} ELSE data[1])
  IN  IF method = "GET"
      THEN [method |-> "GET", query |-> params, body |-> None, content_type |-> "none"]
      ELSE [method |-> method, query |-> {}, body |-> Some([form |-> params]),
            content_type |-> "application/x-www-form-urlencoded"]

\* TrelloMCPServer.callTrelloAPI: after fetch.
ServerResult(outcome) ==
  IF outcome.rejected THEN Thrown(Error("TypeError", <<outcome.cause>>))
  ELSE IF ~Ok(outcome)
  THEN Thrown(Error("Error", <<"Trello API error:", outcome.status, outcome.statusText>>))
  ELSE Returned

callTrelloAPI(side, method, data, outcome) ==
  IF side = "app"
  THEN [request |-> AppRequest(method, data), result |-> AppResult(outcome)]
  ELSE [request |-> ServerRequest(method, data), result |-> ServerResult(outcome)]

\* callTrelloWithFallback once the MCP attempt has thrown mcpError: the direct
\* API call, and both messages in one new Error when it throws too.
callTrelloWithFallback(operation, mcpError, direct) ==
  IF direct.threw
  THEN Thrown(Error("Error",
         <<"Trello", operation, "failed: MCP (">> \o mcpError.message
           \o <<") and Direct API (">> \o direct.error.message \o <<")">>))
  ELSE Returned

ApiInputs ==
  { Asked("callTrelloAPI", [side |-> sd, method |-> m, data |-> d, outcome |-> o]) :
      sd \in {"app", "mcp_server"}, m \in {"GET", "POST", "PUT"},
      d \in {None, Some({}), Some({"name", "idList"})}, o \in FetchOutcomes }

FallbackInputs ==
  { Asked("callTrelloWithFallback", [operation |-> op, mcpError |-> e, outcome |-> o]) :
      op \in {"create", "update", "comment"},
      e \in {Error("Error", <<"MCP card creation failed:", "connect refused">>)},
      o \in FetchOutcomes }

CallTrelloAPI ==
  /\ probe.fn = "callTrelloAPI"
  /\ probe.out = None
  /\ probe' = [probe EXCEPT !.out =
        Some(callTrelloAPI(probe.in.side, probe.in.method, probe.in.data, probe.in.outcome))]
  /\ UNCHANGED <<now, trelloMCP>>
  /\ UNCHANGED Stores

CallTrelloWithFallback ==
  /\ probe.fn = "callTrelloWithFallback"
  /\ probe.out = None
  /\ probe' = [probe EXCEPT !.out =
        Some(callTrelloWithFallback(probe.in.operation, probe.in.mcpError,
                                    AppResult(probe.in.outcome)))]
  /\ UNCHANGED <<now, trelloMCP>>
  /\ UNCHANGED Stores

InitHelpers ==
  /\ InitStores
  /\ trelloMCP = NewTrelloMCP
  /\ \/ probe \in NextRetryInputs /\ now \in 0..MaxProbeClock
     \/ probe \in UpdateInputs /\ now = 0
     \/ probe \in ListInputs /\ now = 0
     \/ probe \in LabelInputs /\ now = 0
     \/ probe \in DescriptionInputs /\ now = 0
     \/ probe \in ApiInputs /\ now = 0
     \/ probe \in FallbackInputs /\ now = 0

NextHelpers ==
  \/ CalculateNextRetry
  \/ SendUpdate
  \/ ResolveList
  \/ BuildCardLabels
  \/ BuildCardDescription
  \/ CallTrelloAPI
  \/ CallTrelloWithFallback

SpecHelpers == InitHelpers /\ [][NextHelpers]_vars

\* ------------------------------------------------------ board provisioning
\* setupClientTrelloBoard and resetClientTrelloBoard, each as a function of
\* its arguments, the clients row and the answers of its collaborators to
\* the clients row it leaves, the calls it made and what it returned.
MaxInvites == 2

\* The lists map of a create_board answer, in the order of its keys.
ListMaps ==
  { <<>>,
    << <<"welcome_setup", "W1">>, <<"in_progress", "P1">>, <<"completed", "C1">> >>,
    << <<"welcome_setup", "W1">>, <<"completed", "C1">> >> }

\* What create_board comes back with: callTool throws, the answer holds no
\* board (the server reports an error), or it holds a board and its lists.
BoardAnswers ==
  { [kind |-> "threw", lists |-> <<>>], [kind |-> "no_board", lists |-> <<>>] }
    \cup { [kind |-> "board", lists |-> l] : l \in ListMaps }

\* What add_member_to_board comes back with: callTool throws, the server
\* answers with the error of its provider call, or the member is added.
MemberAnswers == {"ok", "threw", "provider_error"}

NewBoard == [id |-> "B1", url |-> "U1"]

\* createBoardViaMCP
createBoardViaMCP(answer) ==
  IF answer.kind = "board"
  THEN [success |-> TRUE, board |-> NewBoard, lists |-> answer.lists]
  ELSE [success |-> FALSE, board |-> NewBoard, lists |-> <<>>]

\* lists.in_progress || Object.values(lists)[0]
DefaultList(lists) ==
  LET hits == SelectSeq(lists, LAMBDA kv : kv[1] = "in_progress")
  IN  IF hits # <<>> THEN hits[1][2]
      ELSE IF lists # <<>> THEN lists[1][2]
      ELSE NULL

\* The fields of the update of the clients row.
BoardFields(client, board, lists) ==
  [ trello_board_id        |-> board.id,
    trello_board_url       |-> board.url,
    trello_list_ids        |-> Some(lists),
    trello_setup_completed |-> TRUE,
    trello_config          |-> [board_id |-> board.id, list_id |-> DefaultList(lists)]
                                 @@ client.trello_config ]

\* inviteTeamMembersToBoard: one add_member_to_board call per member; a call
\* that throws is counted as failed, any other as successful.
inviteTeamMembersToBoard(memberEmails, answers) ==
  LET idx    == [i \in 1..Len(memberEmails) |-> i]
      thrown == SelectSeq(idx, LAMBDA i : answers[i] = "threw")
  IN  [ successful |-> Len(memberEmails) - Len(thrown),
        failed     |-> Len(thrown),
        errors     |-> [k \in 1..Len(thrown) |-> memberEmails[thrown[k]]],
        calls      |-> [i \in 1..Len(memberEmails) |-> <<"add_member_to_board", memberEmails[i]>>] ]

Outcome(result, client, calls, invited) ==
  [result |-> result, client |-> client, calls |-> calls, invited |-> invited]

NotInvited == [successful |-> 0, failed |-> 0, errors |-> <<>>, calls |-> <<>>]

BoardResult(success, skipped, board, error) ==
  [success |-> success, skipped |-> skipped, threw |-> FALSE, data |-> board, error |-> error]

BoardThrew(error) ==
  [success |-> FALSE, skipped |-> FALSE, threw |-> TRUE, data |-> None, error |-> error]

\* The catch block of setupClientTrelloBoard.
setupFailed(client, calls, invited, error) ==
  Outcome(BoardResult(FALSE, FALSE, None, error), client,
          Append(calls, <<"logActivity", "trello_board_setup_failed">>), invited)

setupClientTrelloBoard_ignoreFlag(client, owner_email, options, env) ==
  LET made == createBoardViaMCP(env.board)
  IN  Outcome(BoardResult(TRUE, TRUE, None, NULL), client,
              IF made.success THEN << <<"create_board", "">> >> ELSE <<>>, NotInvited)

\* setupClientTrelloBoard(clientData, options); client is the clients row of
\* clientData.id.
setupClientTrelloBoard(client, owner_email, options, env) ==
  IF ~options.setupTrello
  THEN Outcome(BoardResult(TRUE, TRUE, None, NULL), client, <<>>, NotInvited)
  ELSE
  LET made   == createBoardViaMCP(env.board)
      calls1 == << <<"create_board", "">> >>
  IN
  IF ~made.success THEN setupFailed(client, calls1, NotInvited, "board")
  ELSE
  LET client2 == IF env.write
                 THEN BoardFields(client, made.board, made.lists) @@ client
                 ELSE client
      calls2  == Append(calls1, <<"update_client", made.board.id>>)
      calls3  == IF owner_email # NULL
                 THEN Append(calls2, <<"add_member_to_board", owner_email>>)
                 ELSE calls2
      invited == IF Len(options.inviteMembers) > 0
                 THEN inviteTeamMembersToBoard(options.inviteMembers, env.invites)
                 ELSE NotInvited
      calls4  == Append(calls3 \o invited.calls, <<"logActivity", "trello_board_created">>)
  IN
  IF logActivity(env.audit).threw THEN setupFailed(client2, calls4, invited, "audit")
  ELSE Outcome(BoardResult(TRUE, FALSE, Some([board |-> made.board, lists |-> made.lists]), NULL),
               client2, calls4, invited)

\* resetClientTrelloBoard(clientId); found: the clients row was read.
resetClientTrelloBoard(client, found, env) ==
  IF ~found THEN Outcome(BoardThrew("not_found"), client, <<>>, NotInvited)
  ELSE
  LET made   == createBoardViaMCP(env.board)
      calls1 == << <<"create_board", "">> >>
      calls2 == Append(calls1, <<"update_client", made.board.id>>)
      calls3 == Append(calls2, <<"logActivity", "trello_board_reset">>)
  IN
  IF ~made.success THEN Outcome(BoardThrew("board"), client, calls1, NotInvited)
  ELSE IF ~env.write THEN Outcome(BoardThrew("update_client"), client, calls2, NotInvited)
  ELSE IF logActivity(env.audit).threw
  THEN Outcome(BoardThrew("audit"), BoardFields(client, made.board, made.lists) @@ client,
               calls3, NotInvited)
  ELSE Outcome(BoardResult(TRUE, FALSE, Some([board |-> made.board, lists |-> made.lists]), NULL),
               BoardFields(client, made.board, made.lists) @@ client, calls3, NotInvited)

\* A clients row: without a board yet, or with the board of an earlier setup.
ClientRows ==
  { [ trello_board_id        |-> b[1],
      trello_board_url       |-> b[2],
      trello_list_ids        |-> None,
      trello_setup_completed |-> b[1] # NULL,
      trello_config          |-> [ api_key |-> "K", token |-> "T", board_id |-> b[1],
                                   list_id |-> b[3], priority_labels |-> "labels",
                                   members |-> "members" ] ] :
      b \in { <<NULL, NULL, NULL>>, <<"B0", "U0", "L0">> } }

MemberLists == UNION { [1..n -> {"m@team"}] : n \in 0..MaxInvites }

\* The answers of the MCP server, the store and the audit trail during one
\* run with n members to invite; an answer that the run never asks for is
\* left at its default.
DefaultBoardEnv(n) ==
  [ board |-> [kind |-> "board", lists |-> <<>>], write |-> TRUE, owner |-> "ok",
    invites |-> [i \in 1..n |-> "ok"], audit |-> "ok" ]

BoardEnvs(n, asked, owner) ==
  IF ~asked THEN {DefaultBoardEnv(n)}
  ELSE { [DefaultBoardEnv(n) EXCEPT !.board = b, !.audit = a] :
           b \in { x \in BoardAnswers : x.kind # "board" }, a \in {"ok", "rejected"} }
       \cup
       [ board   : { x \in BoardAnswers : x.kind = "board" },
         write   : BOOLEAN,
         owner   : IF owner THEN MemberAnswers ELSE {"ok"},
         invites : [1..n -> MemberAnswers],
         audit   : {"ok", "no_actor", "rejected"} ]

SetupArguments == ClientRows \X {NULL, "owner@client"} \X BOOLEAN \X MemberLists

SetupInputs ==
  UNION { { Asked("setupClientTrelloBoard",
                  [client |-> a[1], owner_email |-> a[2],
                   options |-> [setupTrello |-> a[3], inviteMembers |-> a[4]], env |-> env]) :
              env \in BoardEnvs(Len(a[4]), a[3], a[2] # NULL) } : a \in SetupArguments }

ResetInputs ==
  UNION { { Asked("resetClientTrelloBoard", [client |-> a[1], found |-> a[2], env |-> env]) :
              env \in BoardEnvs(0, a[2], FALSE) } : a \in ClientRows \X BOOLEAN }

SetupClientTrelloBoard ==
  /\ probe.fn = "setupClientTrelloBoard"
  /\ probe.out = None
  /\ probe' = [probe EXCEPT !.out =
        Some(setupClientTrelloBoard(probe.in.client, probe.in.owner_email,
                                    probe.in.options, probe.in.env))]
  /\ UNCHANGED <<now, trelloMCP>>
  /\ UNCHANGED Stores

ResetClientTrelloBoard ==
  /\ probe.fn = "resetClientTrelloBoard"
  /\ probe.out = None
  /\ probe' = [probe EXCEPT !.out =
        Some(resetClientTrelloBoard(probe.in.client, probe.in.found, probe.in.env))]
  /\ UNCHANGED <<now, trelloMCP>>
  /\ UNCHANGED Stores

InitBoard ==
  /\ InitStores
  /\ trelloMCP = NewTrelloMCP
  /\ now = 0
  /\ \/ probe \in SetupInputs
     \/ probe \in ResetInputs

NextBoard ==
  \/ SetupClientTrelloBoard
  \/ ResetClientTrelloBoard

SpecBoard == InitBoard /\ [][NextBoard]_vars

\* ------------------------------------------------------- the MCP client
\* The singleton TrelloMCPClient under concurrent calls.  A call runs from
\* one await to the next in one step; trelloMCP.callers[p] is where call p stands:
\* its operation, the tool it asks for, the await it is suspended at (pc)
\* and how it ended (result).  listed is whether the tool was in
\* availableTools when the underlying client was invoked.
MaxCallers == 2
MaxConnectionAttempts == 3

ServerTools == {"create_board", "add_member_to_board"}
ToolNames == {"create_board", "get_card"}

IdleCaller == [pc |-> "idle", op |-> "none", name |-> "", result |-> "none", listed |-> FALSE]

Callers == <<now, probe>>

SetCaller(m, p, c) == [m EXCEPT !.callers[p] = c]

Finish(m, p, result) == [m EXCEPT !.callers[p].pc = "idle", !.callers[p].result = result]

\* callTool past its connection test: the availability test, then the call
\* of the underlying client.
CheckAndInvoke(m, p) ==
  IF m.callers[p].name \notin m.availableTools
  THEN Finish(m, p, "threw not available")
  ELSE [m EXCEPT !.callers[p].pc = "callTool", !.callers[p].listed = TRUE]

\* connect() up to await this.client.connect(transport).
BeginConnect(m, p) ==
  [m EXCEPT !.connectionAttempts = @ + 1, !.client = "client", !.callers[p].pc = "connect"]

\* connect() has returned connected to the operation that awaited it.
AfterConnect(m, p, connected) ==
  CASE m.callers[p].op = "connect" -> Finish(m, p, IF connected THEN "true" ELSE "false")
    [] m.callers[p].op = "getAvailableTools" -> Finish(m, p, "returned")
    [] m.callers[p].op = "callTool" ->
         IF connected THEN CheckAndInvoke(m, p) ELSE Finish(m, p, "threw not connected")

\* A call starts and runs to its first await.
Start(p, op, name) ==
  /\ trelloMCP.callers[p].pc = "idle"
  /\ LET m == SetCaller(trelloMCP, p, [IdleCaller EXCEPT !.op = op, !.name = name, !.pc = "running"])
     IN  trelloMCP' =
           CASE op = "connect" -> BeginConnect(m, p)
             [] op = "getAvailableTools" ->
                  IF ~m.isConnected THEN BeginConnect(m, p) ELSE Finish(m, p, "returned")
             [] op = "callTool" ->
                  IF ~m.isConnected THEN BeginConnect(m, p) ELSE CheckAndInvoke(m, p)
             [] op = "disconnect" ->
                  IF m.client # NULL THEN [m EXCEPT !.callers[p].pc = "close"]
                  ELSE Finish([m EXCEPT !.isConnected = FALSE, !.availableTools = {},
                                        !.client = NULL], p, "returned")
  /\ UNCHANGED Callers
  /\ UNCHANGED Stores

\* await this.client.connect(transport) resolves: connected, then
\* refreshAvailableTools up to await this.client.listTools().
ConnectResolved(p) ==
  /\ trelloMCP.callers[p].pc = "connect"
  /\ LET m == [trelloMCP EXCEPT !.isConnected = TRUE, !.connectionAttempts = 0]
     IN  trelloMCP' = IF m.client = NULL
                THEN AfterConnect([m EXCEPT !.availableTools = {}], p, TRUE)
                ELSE [m EXCEPT !.callers[p].pc = "listTools"]
  /\ UNCHANGED Callers
  /\ UNCHANGED Stores

\* await this.client.connect(transport) rejects: the catch of connect().
ConnectRejected(p) ==
  /\ trelloMCP.callers[p].pc = "connect"
  /\ LET m == [trelloMCP EXCEPT !.isConnected = FALSE, !.availableTools = {},
                          !.connectionAttempts =
                             IF @ >= MaxConnectionAttempts THEN 0 ELSE @]
     IN  trelloMCP' = AfterConnect(m, p, FALSE)
  /\ UNCHANGED Callers
  /\ UNCHANGED Stores

\* await this.client.listTools() resolves with the tools of the server, or
\* with none; a client that was closed meanwhile does not answer.
ListResolved(p, tools) ==
  /\ trelloMCP.callers[p].pc = "listTools"
  /\ trelloMCP.client # NULL
  /\ trelloMCP' = AfterConnect([trelloMCP EXCEPT !.availableTools = tools], p, TRUE)
  /\ UNCHANGED Callers
  /\ UNCHANGED Stores

\* await this.client.listTools() rejects: the catch of refreshAvailableTools.
ListRejected(p) ==
  /\ trelloMCP.callers[p].pc = "listTools"
  /\ trelloMCP' = AfterConnect([trelloMCP EXCEPT !.availableTools = {}], p, TRUE)
  /\ UNCHANGED Callers
  /\ UNCHANGED Stores

\* await this.client.callTool(...) resolves.
ToolResolved(p) ==
  /\ trelloMCP.callers[p].pc = "callTool"
  /\ trelloMCP' = Finish(trelloMCP, p, "returned")
  /\ UNCHANGED Callers
  /\ UNCHANGED Stores

\* await this.client.callTool(...) rejects; lost: the message names the
\* connection or the transport.
ToolRejected(p, lost) ==
  /\ trelloMCP.callers[p].pc = "callTool"
  /\ trelloMCP' = Finish(IF lost THEN [trelloMCP EXCEPT !.isConnected = FALSE, !.availableTools = {}]
                   ELSE trelloMCP, p, "threw tool error")
  /\ UNCHANGED Callers
  /\ UNCHANGED Stores

\* await this.client.close() resolves.
CloseResolved(p) ==
  /\ trelloMCP.callers[p].pc = "close"
  /\ trelloMCP' = Finish([trelloMCP EXCEPT !.isConnected = FALSE, !.availableTools = {}, !.client = NULL],
                   p, "returned")
  /\ UNCHANGED Callers
  /\ UNCHANGED Stores

\* await this.client.close() rejects: the catch of disconnect().
CloseRejected(p) ==
  /\ trelloMCP.callers[p].pc = "close"
  /\ trelloMCP' = Finish(trelloMCP, p, "returned")
  /\ UNCHANGED Callers
  /\ UNCHANGED Stores

InitClient ==
  /\ InitStores
  /\ now = 0
  /\ probe = NoProbe
  /\ trelloMCP = [NewTrelloMCP EXCEPT !.callers = [p \in 1..MaxCallers |-> IdleCaller]]

NextClient ==
  \E p \in 1..MaxCallers :
    \/ \E op \in {"connect", "getAvailableTools", "disconnect"} : Start(p, op, "")
    \/ \E name \in ToolNames : Start(p, "callTool", name)
    \/ ConnectResolved(p)
    \/ ConnectRejected(p)
    \/ \E tools \in {ServerTools, {}} : ListResolved(p, tools)
    \/ ListRejected(p)
    \/ ToolResolved(p)
    \/ \E lost \in BOOLEAN : ToolRejected(p, lost)
    \/ CloseResolved(p)
    \/ CloseRejected(p)

SpecClient == InitClient /\ [][NextClient]_vars

\* ================================================================== claims
\* The rows of design request r in the ledger, and the latest of them.
LogsOf(r) == { i \in 1..Len(ledger) : ledger[i].design_request_id = r }

LatestLog(r) == ledger[CHOOSE i \in LogsOf(r) : \A j \in LogsOf(r) : j <= i]

\* The sync_status the latest row of r stands for.
Projected(r) ==
  IF LogsOf(r) = {} THEN "pending"
  ELSE IF LatestLog(r).status = "completed" THEN "synced"
  ELSE IF LatestLog(r).status \in {"failed", "failed_permanently"} THEN "failed"
  ELSE "pending"

\* C1 (as stated): the sync_status of every design request is the projection
\* of its latest ledger row: synced for completed, failed for failed or
\* failed_permanently, pending otherwise; also after an updateTrelloCard
\* whose provider call failed.
C1_SyncStatusIsProjection ==
  \A r \in DOMAIN requests : requests[r].sync_status = Projected(r)

\* C2 (as stated): a design request with sync_status synced has a Trello card
\* id and its latest ledger row is completed.
C2_SyncedHasCardAndCompletedLog ==
  \A r \in DOMAIN requests :
    requests[r].sync_status = "synced" =>
      /\ requests[r].trello_card_id # None
      /\ LogsOf(r) # {}
      /\ LatestLog(r).status = "completed"

\* C3 (as stated): when the provider call of createTrelloCard or of
\* updateTrelloCard fails, the attempt's ledger row ends failed with the
\* error message, retry_count 0 and next_retry_at five minutes from now; the
\* design request ends with sync_status failed, sync_error set and
\* sync_attempts one higher; the error is raised again.
C3_ProviderFailureMarksLogAndRequest ==
  [][ (lastCall'.fn \in {"create", "update"} /\ lastCall'.error = "provider") =>
        LET r      == lastCall'.request
            row    == ledger'[lastCall'.log_id]
            before == IF r \in DOMAIN requests THEN requests[r].sync_attempts ELSE 0
        IN  /\ lastCall'.result = "threw"
            /\ row.status = "failed"
            /\ row.error_message = "provider"
            /\ row.retry_count = 0
            /\ row.next_retry_at = Some(now' + 5)
            /\ requests'[r].sync_status = "failed"
            /\ requests'[r].sync_error = "provider"
            /\ requests'[r].sync_attempts = before + 1 ]_vars

\* C4 (as stated): whenever createTrelloCard, updateTrelloCard or
\* addTrelloComment raises a failure of the provider again (a failed lookup
\* of the board's lists and a failed comment included), the ledger holds a
\* row of that attempt with status failed.
C4_ReraisedFailureHasFailedLog ==
  (lastCall.result = "threw" /\ lastCall.error \in {"provider", "list_lookup"}) =>
    /\ lastCall.log_id \in 1..Len(ledger)
    /\ ledger[lastCall.log_id].status = "failed"

\* A field the trello_config lacks.
Lacks(cfg, field) == cfg[1][field] \in {NULL, ""}

LacksKeyOrToken(cfg) == cfg = None \/ Lacks(cfg, "api_key") \/ Lacks(cfg, "token")

LacksRequired(cfg) == LacksKeyOrToken(cfg) \/ Lacks(cfg, "board_id")

\* The call ended in the error kind before any ledger row and any provider
\* call.
Refused(call, kind) ==
  /\ call.result = "threw"
  /\ call.error = kind
  /\ call.events = <<>>
  /\ call.log_id = 0

CallHasCard(call) ==
  /\ call.request \in DOMAIN requests
  /\ requests[call.request].trello_card_id # None

\* C5 (as stated, the kind of the error left open): when the trello_config
\* is absent or lacks api_key, token or board_id, each of createTrelloCard,
\* updateTrelloCard and addTrelloComment fails before it creates a ledger row
\* and before it calls the provider.
C5_MissingConfigRefusesEveryOperation ==
  (/\ lastCall.fn \in {"create", "update", "comment"}
   /\ lastCall.request \in DOMAIN requests
   /\ LacksRequired(lastCall.config)) =>
     \/ Refused(lastCall, "config")
     \/ Refused(lastCall, "no_card")

\* C5 (amended): createTrelloCard fails with the configuration error, before
\* any ledger row and any provider call, when the trello_config is absent or
\* lacks api_key, token or board_id.  updateTrelloCard and addTrelloComment
\* require api_key and token only: for a request with a card they fail the
\* same way exactly when the config is absent or lacks one of the two, and
\* for a request without a card they fail with the no-card error, again
\* before any ledger row and any provider call.
C5_ConfigErrorBeforeLedger ==
  /\ (/\ lastCall.fn = "create"
      /\ lastCall.request \in DOMAIN requests
      /\ LacksRequired(lastCall.config)) => Refused(lastCall, "config")
  /\ (/\ lastCall.fn \in {"update", "comment"}
      /\ lastCall.request \in DOMAIN requests) =>
        IF ~CallHasCard(lastCall) THEN Refused(lastCall, "no_card")
        ELSE IF LacksKeyOrToken(lastCall.config) THEN Refused(lastCall, "config")
        ELSE lastCall.error # "config"

\* updateTrelloCard refused a request that has a card for want of a token,
\* and the ledger is as it was.
C5_Witness ==
  /\ lastCall.fn = "update"
  /\ CallHasCard(lastCall)
  /\ lastCall.config # None
  /\ Lacks(lastCall.config, "token")
  /\ Refused(lastCall, "config")

\* C6: once insertDesignRequest has succeeded, onSubmit ends with the
\* redirect and without an error shown, and the inserted row is stored,
\* whether createTrelloCard returned or threw.
C6_SubmitSurvivesSyncFailure ==
  submission.request # 0 =>
    /\ submission.redirected
    /\ submission.error = NULL
    /\ submission.request \in DOMAIN requests

\* A submission whose createTrelloCard threw on a provider failure, and
\* which was redirected all the same.
C6_Witness ==
  /\ submission.request \in DOMAIN requests
  /\ submission.sync = "threw"
  /\ lastCall.error = "provider"
  /\ submission.redirected

\* C7 (as stated): when createTrelloCard returns successfully, the attempt's
\* ledger row is completed with the provider's response, the method and the
\* completion time, and the design request holds the card id and url, is
\* synced and has no sync_error; also when the store rejected the write to
\* the design request.
C7_CreateSuccessStoresCard ==
  (lastCall.fn = "create" /\ lastCall.result = "success") =>
    LET row == ledger[lastCall.log_id]
        req == requests[lastCall.request]
    IN  /\ row.status = "completed"
        /\ row.trello_response # None
        /\ row.synced_by \in {"mcp", "direct_api"}
        /\ row.completed_at # None
        /\ req.trello_card_id # None
        /\ req.trello_card_id = row.trello_card_id
        /\ req.trello_card_url # None
        /\ req.sync_status = "synced"
        /\ req.sync_error = NULL

\* C8 (as stated): in every attempt of createTrelloCard, updateTrelloCard or
\* addTrelloComment, the in_progress ledger row of the attempt is written
\* before the first call to the provider.
C8_LedgerRowBeforeProviderCall ==
  \A i \in DOMAIN lastCall.events :
    lastCall.events[i] \in {"lists", "provider"} =>
      \E j \in 1..(i - 1) : lastCall.events[j] = "insert"

\* The step is an iteration of processFailedSyncs whose retry failed again.
RetryFailedAgain ==
  /\ sweep.pc = "loop"
  /\ Len(sweep'.results) = Len(sweep.results) + 1
  /\ ~sweep'.results[Len(sweep'.results)].success

\* C9: when a retry of processFailedSyncs fails again, the row's retry_count
\* goes up by one; at five the row becomes failed_permanently with no
\* next_retry_at, and no run holds such a row among those it is to retry;
\* below five it stays failed with next_retry_at = now + 5 min * 2^retry_count.
C9_RenewedFailureBacksOff ==
  [][ /\ RetryFailedAgain =>
           LET id  == Head(sweep.batch).id
               n   == ledger[id].retry_count + 1
               row == ledger'[id]
           IN  /\ row.retry_count = n
               /\ IF n >= MaxRetryCount
                  THEN row.status = "failed_permanently" /\ row.next_retry_at = None
                  ELSE row.status = "failed"
                         /\ row.next_retry_at = Some(now + BaseDelay * 2 ^ n)
      /\ \A k \in DOMAIN sweep'.batch :
           ledger'[sweep'.batch[k].id].status # "failed_permanently" ]_vars

\* The retry last made failed for the fifth time and left its row
\* failed_permanently.
C9_Witness ==
  /\ sweep.results # <<>>
  /\ LET last == sweep.results[Len(sweep.results)]
     IN  /\ ~last.success
         /\ ledger[last.sync_log_id].status = "failed_permanently"
         /\ ledger[last.sync_log_id].retry_count = MaxRetryCount
         /\ ledger[last.sync_log_id].next_retry_at = None

\* Row i is due for retry at instant t.
Due(i, t) ==
  /\ ledger[i].status \in {"failed", "retrying"}
  /\ ledger[i].next_retry_at # None
  /\ ledger[i].next_retry_at[1] <= t
  /\ ledger[i].retry_count < MaxRetryCount

\* The step is the query of processFailedSyncs.
QueryAnswered ==
  /\ sweep.pc # "loop"
  /\ sweep'.pc \in {"loop", "returned"}

\* C10: a run of processFailedSyncs takes the rows with status failed or
\* retrying, next_retry_at not after now and retry_count below five, oldest
\* first, ten at most, and retries them in that order and no others.
C10_SweepTakesDueRowsInOrder ==
  [][ /\ QueryAnswered =>
           LET sel == sweep'.selected
           IN  /\ \A k \in DOMAIN sel : sel[k] \in 1..Len(ledger) /\ Due(sel[k], now)
               /\ \A j, k \in DOMAIN sel : j < k => sel[j] < sel[k]
               /\ Len(sel) <= BatchLimit
               /\ \A i \in 1..Len(ledger) :
                    (Due(i, now) /\ \A k \in DOMAIN sel : sel[k] # i) =>
                       /\ Len(sel) = BatchLimit
                       /\ \A k \in DOMAIN sel : sel[k] < i
               /\ Len(sweep'.batch) = Len(sel)
      /\ Len(sweep'.results) + Len(sweep'.batch) <= Len(sweep'.selected)
      /\ \A k \in DOMAIN sweep'.results :
           sweep'.results[k].sync_log_id = sweep'.selected[k]
      /\ \A k \in DOMAIN sweep'.batch :
           sweep'.batch[k].id = sweep'.selected[Len(sweep'.results) + k]
      /\ sweep'.pc = "returned" => Len(sweep'.results) = Len(sweep'.selected) ]_vars

\* A run has just taken ten rows, passing over a row that is in_progress
\* and leaving a due row for the next run.
C10_Witness ==
  /\ sweep.pc = "loop"
  /\ sweep.results = <<>>
  /\ Len(sweep.selected) = BatchLimit
  /\ \E i \in 1..Len(ledger) : i > sweep.selected[BatchLimit] /\ Due(i, now)
  /\ \E i \in 1..Len(ledger) : i < sweep.selected[BatchLimit] /\ ledger[i].status = "in_progress"

\* C11 (as stated): a processFailedSyncs run that selected rows retries every
\* one of them and returns one result per selected row, in order, whatever
\* happens to the others, a rejected write of a row's retry bookkeeping
\* included.
C11_EverySelectedEntryProcessed ==
  (sweep.pc \in {"returned", "threw"} /\ sweep.selected # <<>>) =>
    /\ sweep.pc = "returned"
    /\ Len(sweep.results) = Len(sweep.selected)
    /\ \A k \in DOMAIN sweep.results :
         sweep.results[k].sync_log_id = sweep.selected[k]

\* Row i was written by the step.
Written(i) == i \notin DOMAIN ledger \/ ledger'[i] # ledger[i]

\* C13: every failed row has retry_count below five and a next_retry_at,
\* which was later than the instant at which the failure was recorded; every
\* failed_permanently row has retry_count five or more and no next_retry_at.
C13_FailedRowsWellFormed ==
  /\ [](\A i \in DOMAIN ledger :
          /\ ledger[i].status = "failed" =>
               ledger[i].retry_count < 5 /\ ledger[i].next_retry_at # None
          /\ ledger[i].status = "failed_permanently" =>
               ledger[i].retry_count >= 5 /\ ledger[i].next_retry_at = None)
  /\ [][\A i \in DOMAIN ledger' :
          (Written(i) /\ ledger'[i].status = "failed") =>
             ledger'[i].next_retry_at # None /\ ledger'[i].next_retry_at[1] > now']_vars

\* An update retried by the sweeper failed at the provider and left a new
\* failed row, next to a row that is failed_permanently.
C13_Witness ==
  /\ lastCall.fn = "update"
  /\ lastCall.error = "provider"
  /\ ledger[lastCall.log_id].status = "failed"
  /\ ledger[lastCall.log_id].next_retry_at = Some(now + 5)
  /\ \E j \in DOMAIN ledger : ledger[j].status = "failed_permanently"

\* The runs of createTrelloCard that have inserted their ledger row, and
\* those whose provider call has succeeded.
Inserted == { p \in DOMAIN racers : racers[p].pc \notin {"idle", "read"} }

Carded == { p \in DOMAIN racers : racers[p].pc \in {"carded", "stored", "done"} }

\* C12: every run of createTrelloCard for a request, whether or not the
\* request has a card by then and whether the runs follow one another or
\* interleave, inserts a ledger row of its own and calls the provider, and
\* every successful call leaves a card of its own: two successful runs, two
\* cards.
C12_EveryCreateRunMakesACard ==
  /\ \A p \in DOMAIN racers :
       racers[p].pc \in {"done", "threw"} => p \in Inserted
  /\ \A p \in Inserted :
       /\ racers[p].log_id \in DOMAIN ledger
       /\ ledger[racers[p].log_id].operation = "create"
       /\ ledger[racers[p].log_id].design_request_id = 1
       /\ \A q \in Inserted : q # p => racers[q].log_id # racers[p].log_id
  /\ \A p \in DOMAIN racers : racers[p].pc = "done" => p \in Carded
  /\ \A p \in Carded :
       /\ racers[p].card \in DOMAIN cards
       /\ cards[racers[p].card] = 1
       /\ \A q \in Carded : q # p => racers[q].card # racers[p].card
  /\ Len(ledger) = Cardinality(Inserted)
  /\ Len(cards) = Cardinality(Carded)

\* Two interleaved runs have both returned: the one that inserted its row
\* first got its card last, and the request has two cards.
C12_Witness ==
  /\ \E p, q \in DOMAIN racers :
       /\ racers[p].pc = "done" /\ racers[q].pc = "done"
       /\ racers[p].log_id < racers[q].log_id
       /\ racers[p].card > racers[q].card
  /\ Cardinality({ c \in DOMAIN cards : cards[c] = 1 }) >= 2

\* C14: calculateNextRetry(n) is the current instant plus 5, 10, 20, 40 and
\* 80 minutes for n = 0, 1, 2, 3 and 4, that is plus 5 min * 2^n: a delay that
\* grows strictly with n, is not capped and has no random part.
C14_BackoffDoubles ==
  (probe.fn = "calculateNextRetry" /\ probe.out # None) =>
    LET n     == probe.in.retryCount
        delay == probe.out[1] - now
    IN  /\ delay = <<5, 10, 20, 40, 80>>[n + 1]
        /\ delay = 5 * 2 ^ n
        /\ n > 0 => delay > 5 * 2 ^ (n - 1)

\* The delay after the fourth failed retry is eighty minutes.
C14_Witness ==
  /\ probe.fn = "calculateNextRetry"
  /\ probe.in.retryCount = 4
  /\ probe.out = Some(now + 80)

\* C15 (as stated): the card fields an update sends to the provider are
\* exactly the fields of updateData the caller supplied, whatever their
\* values (the empty string and false included), on the MCP path and on the
\* direct API path.
C15_SuppliedUpdateFieldsForwarded ==
  (probe.fn = "updateFields" /\ probe.out # None) =>
    probe.out[1] = { f \in UpdateFields :
                       probe.in.updateData[f] # None }

\* C16 (as stated): whenever a create goes on to ask the provider for a card,
\* the card's list is the configured list_id when there is one, else the
\* configured default_list_id when there is one, else the first list of the
\* board; it is never undefined.
C16_TargetListResolved ==
  (probe.fn = "cardIdList" /\ probe.out # None /\ ~probe.out[1].threw) =>
    LET cfg == probe.in.trelloConfig
        id  == probe.out[1].id
    IN  /\ id # None
        /\ id = IF cfg.list_id \notin {NULL, ""} THEN Some(cfg.list_id)
                ELSE IF cfg.default_list_id \notin {NULL, ""} THEN Some(cfg.default_list_id)
                ELSE Some(probe.in.lists[1])

LabelId(map, key) ==
  IF map # None /\ key \in DOMAIN map[1] /\ map[1][key] # "" THEN <<map[1][key]>> ELSE <<>>

\* C17: buildCardLabels returns the priority label id, when priority_labels
\* gives one to the request's priority, followed by the type label id, when
\* type_labels gives one to the request's type; the empty list when neither
\* does; and a second call with the same arguments returns the same list.
C17_LabelsPriorityThenType ==
  (probe.fn = "buildCardLabels" /\ probe.out # None) =>
    LET r == probe.in.designRequest
        c == probe.in.trelloConfig
    IN  /\ probe.out[1] = LabelId(c.priority_labels, r.priority)
                            \o LabelId(c.type_labels, r.request_type)
        /\ Len(probe.out) = 2 => probe.out[2] = probe.out[1]

C17_Witness ==
  /\ probe.fn = "buildCardLabels"
  /\ Len(probe.out) = 2
  /\ probe.out[2] = <<"P", "T">>

OptionalSections ==
  << <<"Context", "context">>, <<"Design Needs", "design_needs">>,
     <<"Key Message", "key_message">>, <<"Size/Format", "size_format">>,
     <<"Additional Notes", "additional_notes">> >>

Heads(description) == [i \in 1..Len(description) |-> description[i].head]

RECURSIVE ExpectedHeads(_, _)
ExpectedHeads(r, i) ==
  IF i > Len(OptionalSections) THEN <<>>
  ELSE (IF r[OptionalSections[i][2]] \notin {NULL, ""}
        THEN <<OptionalSections[i][1]>> ELSE <<>>) \o ExpectedHeads(r, i + 1)

\* C18: buildCardDescription emits, after the title, the sections Context,
\* Design Needs, Key Message, Size/Format and Additional Notes in this order,
\* each one exactly when the request's field is neither null nor empty and
\* with the field as its content, then always Contact, Priority and
\* Submitted, then the attachment count exactly when the request has at least
\* one file; no head comes without content.
C18_DescriptionSections ==
  (probe.fn = "buildCardDescription" /\ probe.out # None) =>
    LET r    == probe.in.designRequest
        desc == probe.out[1]
        has  == r.file_urls # None /\ Len(r.file_urls[1]) >= 1
    IN  /\ Heads(desc) = <<"Design Request">> \o ExpectedHeads(r, 1)
                           \o <<"Contact", "Priority", "Submitted">>
                           \o (IF has THEN <<"Attached Files">> ELSE <<>>)
        /\ \A i \in 1..Len(desc) :
             desc[i].head \notin {"Submitted", "Attached Files"} => desc[i].body \notin {NULL, ""}
        /\ \A i \in 1..Len(desc) : \A j \in 1..Len(OptionalSections) :
             desc[i].head = OptionalSections[j][1] => desc[i].body = r[OptionalSections[j][2]]
        /\ has => desc[Len(desc)].body = Len(r.file_urls[1])

C18_Witness ==
  /\ probe.fn = "buildCardDescription"
  /\ probe.out # None
  /\ probe.in.designRequest.context = ""
  /\ probe.in.designRequest.design_needs = NULL
  /\ probe.in.designRequest.file_urls = Some(<<"file", "file">>)
  /\ Heads(probe.out[1]) = <<"Design Request", "Key Message", "Size/Format", "Additional Notes",
                             "Contact", "Priority", "Submitted", "Attached Files">>

BodyFields(body) ==
  IF body = None THEN {}
  ELSE IF "json" \in DOMAIN body[1] THEN body[1].json ELSE body[1].form

\* C19 (as stated): every provider request of the app's adapter and of the
\* custom MCP server has key and token in its URL query and not in its body,
\* and every request that is not a GET has a JSON content type.
C19_CredentialsInQueryOnly ==
  (probe.fn = "callTrelloAPI" /\ probe.out # None) =>
    LET req == probe.out[1].request
    IN  /\ {"key", "token"} \subseteq req.query
        /\ {"key", "token"} \cap BodyFields(req.body) = {}
        /\ req.method # "GET" => req.content_type = "application/json"

Carries(err, piece) == \E i \in 1..Len(err.message) : err.message[i] = piece

FailedCall ==
  /\ probe.fn \in {"callTrelloAPI", "callTrelloWithFallback"}
  /\ probe.fn = "callTrelloAPI" => probe.in.side = "app"
  /\ probe.out # None
  /\ probe.in.outcome.rejected \/ ~Ok(probe.in.outcome)

Raised == IF probe.fn = "callTrelloAPI" THEN probe.out[1].result ELSE probe.out[1]

\* C20 (as stated): a failed provider call of the app raises one kind of
\* error: with the HTTP status and the response body for a response that is
\* not 2xx, with status 0 for a failure of the network.
C20_OneProviderErrorKind ==
  FailedCall =>
    /\ Raised.threw
    /\ Raised.error.kind = "Error"
    /\ IF probe.in.outcome.rejected
       THEN Carries(Raised.error, "0")
       ELSE /\ Carries(Raised.error, probe.in.outcome.status)
            /\ Carries(Raised.error, probe.in.outcome.text)

AuditFailed == lastCall.audit \in {"no_actor", "rejected"}

\* C24: logActivity never raises.  A sync handler whose audit write failed,
\* because the actor could not be resolved or because the insert into
\* activity_logs was rejected, still returns success, and the ledger row of
\* the run stays completed.
C24_AuditFailureIsSilent ==
  /\ \A a \in {"ok", "no_actor", "rejected"} : ~logActivity(a).threw
  /\ AuditFailed =>
       /\ lastCall.result = "success"
       /\ lastCall.log_id # 0 => ledger[lastCall.log_id].status = "completed"

C24_Witness ==
  /\ lastCall.fn = "create"
  /\ lastCall.audit = "no_actor"
  /\ lastCall.result = "success"
  /\ ledger[lastCall.log_id].status = "completed"

StatusMoves ==
  { <<"in_progress", "completed">>, <<"in_progress", "failed">>,
    <<"failed", "failed">>, <<"failed", "failed_permanently">> }

\* C25: a row of sync_logs stays in the ledger; when a step changes it, its
\* status moves along in_progress -> completed, in_progress -> failed,
\* failed -> failed or failed -> failed_permanently; a completed or
\* failed_permanently row is never changed, and no row returns to
\* in_progress.
C25_StatusMovesForward ==
  [][ /\ Len(ledger') >= Len(ledger)
      /\ \A i \in 1..Len(ledger) :
           ledger'[i] # ledger[i] =>
             /\ <<ledger[i].status, ledger'[i].status>> \in StatusMoves
             /\ ledger[i].status \notin {"completed", "failed_permanently"}
             /\ ledger'[i].status # "in_progress" ]_vars

C25_Witness ==
  /\ sweep.results # <<>>
  /\ LET last == sweep.results[Len(sweep.results)]
     IN  /\ ~last.success
         /\ ledger[last.sync_log_id].status = "failed"
         /\ ledger[last.sync_log_id].retry_count = last.retry_count
         /\ last.retry_count > 1
  /\ \E j \in DOMAIN ledger : ledger[j].status = "failed_permanently"
  /\ \E j \in DOMAIN ledger : ledger[j].status = "completed"

\* C26 (as stated): a row whose retry by the sweeper has just succeeded is no
\* longer eligible for retry, so that no later processFailedSyncs run selects
\* it again.
C26_SucceededRetryLeavesQueue ==
  \A k \in 1..Len(sweep.results) :
    sweep.results[k].success => ~Eligible(ledger[sweep.results[k].sync_log_id], now)

\* C27 (as stated): retrying is bounded by the ceiling of 5 retries, because
\* a retry that fails adds no fresh retry-eligible row to the ledger: the
\* rows and the provider attempts of a request whose provider calls always
\* fail stop growing.
C27_FailedRetryAddsNoEntry ==
  [][ ( /\ Len(sweep'.results) > Len(sweep.results)
        /\ ~sweep'.results[Len(sweep'.results)].success )
      => \A i \in (Len(ledger) + 1)..Len(ledger') :
           ledger'[i].status \notin {"failed", "retrying"} ]_vars

\* C28 (as stated): a create run in which the provider created a card leaves
\* neither its ledger row failed nor the request's sync_status failed,
\* whatever fails later in the run.
C28_FailedOnlyWithoutCard ==
  [][ (Len(cards') > Len(cards) /\ lastCall'.fn = "create" /\ lastCall'.log_id # 0) =>
        /\ ledger'[lastCall'.log_id].status # "failed"
        /\ requests'[lastCall'.request].sync_status # "failed" ]_vars

\* C21: setupClientTrelloBoard with options.setupTrello = false returns
\* success and skipped, calls no MCP tool and no provider, writes neither the
\* clients row nor the audit trail.
C21_SkippedSetupTouchesNothing ==
  ( /\ probe.fn = "setupClientTrelloBoard"
    /\ probe.out # None
    /\ ~probe.in.options.setupTrello ) =>
      /\ probe.out[1].result.success
      /\ probe.out[1].result.skipped
      /\ ~probe.out[1].result.threw
      /\ probe.out[1].calls = <<>>
      /\ probe.out[1].client = probe.in.client

C21_Witness ==
  /\ probe.fn = "setupClientTrelloBoard"
  /\ probe.out # None
  /\ ~probe.in.options.setupTrello
  /\ probe.in.env.board.kind = "board"
  /\ Len(probe.in.options.inviteMembers) = MaxInvites
  /\ probe.out[1].result.skipped

\* The members of the invitation list whose invitation did not go through.
NotAdded(answers) == { i \in DOMAIN answers : answers[i] # "ok" }

\* C22 (as stated): a failed invitation never aborts provisioning nor changes
\* its result.  Every member of the list is attempted, successful + failed
\* is the number of members with one recorded error for each member whose
\* invitation failed, and setupClientTrelloBoard returns success once the
\* board was created.
C22_InvitationFailuresCollected ==
  ( /\ probe.fn = "setupClientTrelloBoard"
    /\ probe.out # None
    /\ probe.in.options.setupTrello
    /\ probe.in.env.board.kind = "board" ) =>
      LET members == probe.in.options.inviteMembers
          invited == probe.out[1].invited
      IN  /\ probe.out[1].result.success
          /\ Len(invited.calls) = Len(members)
          /\ invited.successful + invited.failed = Len(members)
          /\ invited.failed = Cardinality(NotAdded(probe.in.env.invites))
          /\ Len(invited.errors) = invited.failed

\* The trello_config a board function is to leave in the clients row.
ExpectedConfig(old, lists) ==
  [ old EXCEPT
      !.board_id = NewBoard.id,
      !.list_id  = IF \E i \in DOMAIN lists : lists[i][1] = "in_progress"
                   THEN lists[CHOOSE i \in DOMAIN lists : lists[i][1] = "in_progress"][2]
                   ELSE IF lists # <<>> THEN lists[1][2] ELSE NULL ]

BoardMade ==
  /\ probe.fn \in {"setupClientTrelloBoard", "resetClientTrelloBoard"}
  /\ probe.out # None
  /\ probe.out[1].result.success
  /\ ~probe.out[1].result.skipped

\* C23 (as stated): after a board function has created a board, the clients
\* row holds a trello_config whose list_id is the "In Progress" list of the
\* returned map, or the first list when there is none, whose board_id is the
\* new board and whose other fields are as before.
C23_ConfigPointsAtInProgress ==
  BoardMade =>
    probe.out[1].client.trello_config
      = ExpectedConfig(probe.in.client.trello_config, probe.in.env.board.lists)

\* C29 (as stated): setupClientTrelloBoard returns success with board data
\* only if the clients row now holds the new board's id, its url and its
\* list map.
C29_SuccessMeansStored ==
  (BoardMade /\ probe.fn = "setupClientTrelloBoard") =>
    /\ probe.out[1].client.trello_board_id = NewBoard.id
    /\ probe.out[1].client.trello_board_url = NewBoard.url
    /\ probe.out[1].client.trello_list_ids = Some(probe.in.env.board.lists)

\* C30 (as stated): in every state of the singleton TrelloMCPClient, with
\* its calls interleaved at their awaits, isConnected = false implies that
\* availableTools is empty; and callTool invokes the underlying client only
\* after a connection attempt that did not fail and for a tool that is in
\* availableTools.
C30_DisconnectedHasNoTools ==
  /\ ~trelloMCP.isConnected => trelloMCP.availableTools = {}
  /\ \A p \in DOMAIN trelloMCP.callers :
       trelloMCP.callers[p].pc = "callTool" =>
         /\ trelloMCP.callers[p].op = "callTool"
         /\ trelloMCP.callers[p].listed

====
